---------------------------- MODULE Spec2Model ----------------------------
(***************************************************************************)
(* Model of the intake poller (.github/workflow-scripts/maverick/          *)
(* intake_poller.py): a single-pass run that reads a Projects v2 board,    *)
(* resolves the Status options, checks the gate, selects the lowest        *)
(* numbered ready issue, creates an agent task for it and then moves the   *)
(* item to the in-flight status.                                           *)
(*                                                                         *)
(* Text is modelled as a sequence of one-character strings so that         *)
(* normalize(), str.split() and the substring test are computed as the     *)
(* code computes them.                                                     *)
(***************************************************************************)
EXTENDS Integers, Sequences, FiniteSets, TLC

(***************************************************************************)
(* Bounds of the model.                                                    *)
(***************************************************************************)
MaxItems == 2
MaxRuns == 2
MaxCursor == 2
MaxFetches == 4
MaxLen == 3

None == "None"

(***************************************************************************)
(* Characters and text.                                                    *)
(***************************************************************************)
UpperCase == <<"A","B","C","D","E","F","G","H","I","J","K","L","M","N","O","P","Q","R","S","T","U","V","W","X","Y","Z">>
LowerCase == <<"a","b","c","d","e","f","g","h","i","j","k","l","m","n","o","p","q","r","s","t","u","v","w","x","y","z">>
Digits == {"0","1","2","3","4","5","6","7","8","9"}

Range(f) == {f[i] : i \in DOMAIN f}

IsUpper(ch) == ch \in Range(UpperCase)

\* LATIN CAPITAL LETTER I WITH DOT ABOVE, the one letter whose str.lower()
\* is two characters: "i" and COMBINING DOT ABOVE (not alphanumeric).
I_DotAbove == "U+0130"
CombiningDot == "U+0307"

IsAlnum(ch) == ch \in Range(UpperCase) \cup Range(LowerCase) \cup Digits \cup {I_DotAbove}

IsSpace(ch) == ch \in {" ", "\t"}

ToLower(ch) ==
    IF IsUpper(ch)
    THEN LowerCase[CHOOSE i \in DOMAIN UpperCase : UpperCase[i] = ch]
    ELSE ch

IsKept(ch) == IsAlnum(ch) \/ IsSpace(ch)

\* str.lower() of one character.
LowerOf(ch) == IF ch = I_DotAbove THEN <<"i", CombiningDot>> ELSE <<ToLower(ch)>>

RECURSIVE LowerAll(_)
LowerAll(text) ==
    IF text = <<>> THEN <<>> ELSE LowerOf(Head(text)) \o LowerAll(Tail(text))

RECURSIVE Stripped(_)
Stripped(text) ==
    IF text # <<>> /\ IsSpace(text[Len(text)])
    THEN Stripped(SubSeq(text, 1, Len(text) - 1))
    ELSE IF text # <<>> /\ IsSpace(Head(text)) THEN Stripped(Tail(text)) ELSE text

normalize_Stripped(text) == Stripped(LowerAll(SelectSeq(text, IsKept)))

\* "".join(ch for ch in text if ch.isalnum() or ch.isspace()).lower()
normalize(text) == LowerAll(SelectSeq(text, IsKept))

\* str.split() with no argument: the maximal runs of non-whitespace characters.
RECURSIVE SplitFrom(_, _, _)
SplitFrom(text, i, cur) ==
    IF i > Len(text)
    THEN IF cur = <<>> THEN <<>> ELSE <<cur>>
    ELSE IF IsSpace(text[i])
         THEN IF cur = <<>>
              THEN SplitFrom(text, i + 1, <<>>)
              ELSE <<cur>> \o SplitFrom(text, i + 1, <<>>)
         ELSE SplitFrom(text, i + 1, Append(cur, text[i]))

split(text) == SplitFrom(text, 1, <<>>)

\* tok in key
IsSubstring(tok, key) ==
    \E i \in 0..(Len(key) - Len(tok)) : SubSeq(key, i + 1, i + Len(tok)) = tok

\* key == want or all(tok in key for tok in want.split())
OptionMatches(key, want) ==
    \/ key = want
    \/ LET toks == split(want)
       IN  \A k \in DOMAIN toks : IsSubstring(toks[k], key)

T_Ready == <<"R","e","a","d","y">>
T_InFlight == <<"I","n"," ","F","l","i","g","h","t">>
T_Debrief == <<"D","e","b","r","i","e","f">>
T_Remediation == <<"R","e","m","e","d","i","a","t","i","o","n">>
T_Verification == <<"V","e","r","i","f","i","c","a","t","i","o","n">>
T_ReadyForIntegration == <<"R","e","a","d","y"," ","f","o","r"," ","I","n","t","e","g","r","a","t","i","o","n">>
T_Done == <<"D","o","n","e">>
T_Working == <<"W","o","r","k","i","n","g">>
T_ReadyDecorated == <<"R","e","a","d","y"," ","*">>
T_InFlightDecorated == <<"I","n"," ","F","l","i","g","h","t"," ","*">>
T_Backlog == <<"B","a","c","k","l","o","g">>
T_PR == <<"P","R">>
T_Status == <<"S","t","a","t","u","s">>
T_Title == <<"T","i","t","l","e">>
T_pr == <<"p","r">>

gate_status_names ==
    <<T_InFlight, T_Debrief, T_Remediation, T_Verification, T_ReadyForIntegration>>

want_gate == [i \in DOMAIN gate_status_names |-> normalize(gate_status_names[i])]

GateMatches(key) ==
    \E g \in DOMAIN want_gate : OptionMatches(key, want_gate[g])

\* The loop over status_field["options"]: every matching option overwrites
\* opt_ready / opt_inflight, and is appended to opt_gate when it matches a
\* gate name.
RECURSIVE ResolveLoop(_, _, _, _, _)
ResolveLoop(options, i, want_ready, want_inflight, acc) ==
    IF i > Len(options)
    THEN acc
    ELSE LET key == normalize(options[i].name)
             r == IF OptionMatches(key, want_ready) THEN options[i].id ELSE acc.opt_ready
             f == IF OptionMatches(key, want_inflight) THEN options[i].id ELSE acc.opt_inflight
             g == IF GateMatches(key) THEN Append(acc.opt_gate, options[i].id) ELSE acc.opt_gate
         IN  ResolveLoop(options, i + 1, want_ready, want_inflight,
                         [opt_ready |-> r, opt_inflight |-> f, opt_gate |-> g])

ResolveOptions(options, status_ready, status_inflight) ==
    ResolveLoop(options, 1, normalize(status_ready), normalize(status_inflight),
                [opt_ready |-> None, opt_inflight |-> None, opt_gate |-> <<>>])


(***************************************************************************)
(* The remote board: fields (one of them the single-select Status field)   *)
(* and items.  Boards are drawn from a catalogue of option lists, of PR    *)
(* field variants and of item shapes.                                      *)
(***************************************************************************)
Opt(id, name) == [id |-> id, name |-> name]

Names(status_ready, status_inflight) ==
    [status_ready |-> status_ready, status_inflight |-> status_inflight]

\* A scenario: the options of the Status field, the STATUS_READY and
\* STATUS_INFLIGHT names the workflow configures, and the PR field variants
\* ("" for a board without a PR field).
Scenarios ==
    { [options |-> <<Opt("o1", T_Ready), Opt("o2", T_InFlight), Opt("o3", T_Debrief),
                     Opt("o4", T_Done)>>,
       names |-> Names(T_Ready, T_InFlight), pr |-> {"", "NUMBER", "TEXT"}],
      [options |-> <<Opt("o1", T_ReadyDecorated), Opt("o2", T_InFlightDecorated),
                     Opt("o3", T_Verification)>>,
       names |-> Names(T_Ready, T_InFlight), pr |-> {"", "NUMBER"}],
      [options |-> <<Opt("o1", T_Ready), Opt("o2", T_Working), Opt("o3", T_Remediation),
                     Opt("o4", T_Done)>>,
       names |-> Names(T_ReadyDecorated, T_Working), pr |-> {"", "NUMBER", "TEXT"}],
      [options |-> <<Opt("o1", T_Ready), Opt("o2", T_ReadyForIntegration),
                     Opt("o3", T_InFlight)>>,
       names |-> Names(T_Ready, T_InFlight), pr |-> {"", "NUMBER"}],
      [options |-> <<Opt("o1", T_ReadyForIntegration), Opt("o2", T_Ready),
                     Opt("o3", T_InFlight)>>,
       names |-> Names(T_Ready, T_InFlight), pr |-> {"", "NUMBER"}],
      [options |-> <<Opt("o1", T_Backlog), Opt("o2", T_Done)>>,
       names |-> Names(T_Ready, T_InFlight), pr |-> {"", "NUMBER"}],
      [options |-> <<Opt("o1", T_ReadyDecorated), Opt("o2", T_ReadyForIntegration),
                     Opt("o3", T_InFlightDecorated)>>,
       names |-> Names(T_Ready, T_InFlight), pr |-> {"NUMBER"}],
      [options |-> <<>>,
       names |-> Names(T_Ready, T_InFlight), pr |-> {"NUMBER"}] }

\* A field node of the project query; hasOptions tells whether the node carries
\* an "options" key (single-select fields do).
NoField == [id |-> None, name |-> <<>>, hasOptions |-> FALSE, options |-> <<>>, dataType |-> None]

TitleField ==
    [id |-> "F_title", name |-> T_Title, hasOptions |-> FALSE, options |-> <<>>,
     dataType |-> "TEXT"]

StatusField(options) ==
    [id |-> "F_status", name |-> T_Status, hasOptions |-> TRUE, options |-> options,
     dataType |-> "SINGLE_SELECT"]

PRField(dataType) ==
    [id |-> "F_pr", name |-> T_PR, hasOptions |-> FALSE, options |-> <<>>,
     dataType |-> dataType]

\* The fields of a scenario's board; a scenario without options has no
\* Status field.
FieldsOf(options, pr) ==
    <<TitleField>> \o
    (IF options = <<>> THEN <<>> ELSE <<StatusField(options)>>) \o
    (IF pr = "" THEN <<>> ELSE <<PRField(pr)>>)

owner == "acme"
repo == "app"

NoContent == [typename |-> None, number |-> 0, owner |-> None, name |-> None]

Content(typename, number, o, r) ==
    [typename |-> typename, number |-> number, owner |-> o, name |-> r]

\* Item shapes: the content and the position, in the Status option list, of
\* the option the item holds (0: the item has no Status value).
ItemShapes ==
    << [content |-> Content("Issue", 5, owner, repo), pos |-> 1],
       [content |-> Content("Issue", 3, owner, repo), pos |-> 1],
       [content |-> Content("Issue", 7, owner, repo), pos |-> 2],
       [content |-> Content("Issue", 1, "other", repo), pos |-> 1],
       [content |-> Content("PullRequest", 2, owner, repo), pos |-> 1],
       [content |-> NoContent, pos |-> 3],
       [content |-> Content("Issue", 4, owner, repo), pos |-> 0],
       [content |-> Content("Issue", 8, owner, repo), pos |-> 1] >>

\* next(n for n in status_nodes if n.get("name") == "Status" and n.get("options") is not None)
StatusFieldOf(fields) ==
    LET hits == {i \in DOMAIN fields : fields[i].name = T_Status /\ fields[i].hasOptions}
    IN  IF hits = {} THEN NoField
        ELSE fields[CHOOSE i \in hits : \A j \in hits : i <= j]

FieldValuesOf(fields, pos) ==
    LET sf == StatusFieldOf(fields)
    IN  <<[field |-> "F_title", optionId |-> None]>> \o
        (IF sf # NoField /\ pos \in DOMAIN sf.options
         THEN << [field |-> sf.id, optionId |-> sf.options[pos].id] >>
         ELSE <<>>)

ItemIds == <<"i1", "i2", "i3", "i4", "i5", "i6", "i7", "i8">>

MakeItem(fields, k) ==
    [id |-> ItemIds[k], content |-> ItemShapes[k].content,
     fieldValues |-> FieldValuesOf(fields, ItemShapes[k].pos)]

\* The boards hold at most MaxItems items, in the order of the catalogue.
ShapeChoices ==
    UNION { { sq \in [1..n -> DOMAIN ItemShapes] : \A a, b \in 1..n : a < b => sq[a] < sq[b] } :
            n \in 0..MaxItems }

\* pages is empty for a board whose items connection is served as it is, in
\* pages of PageSize; otherwise it scripts, for each cursor, the pageInfo the
\* remote answers with.
BoardOf(fields, choice) ==
    [fields |-> fields, items |-> [k \in DOMAIN choice |-> MakeItem(fields, choice[k])],
     pages |-> <<>>]

(***************************************************************************)
(* State.                                                                  *)
(***************************************************************************)
Pollers == {"p1", "p2"}

VARIABLES
    board,        \* the remote board
    cfg,          \* STATUS_READY / STATUS_INFLIGHT of the workflow
    runs,         \* per poller process: the state of its current run of main()
    runsStarted,  \* number of runs started so far
    transitions   \* history: the status changes that landed on the board

vars == <<board, cfg, runs, runsStarted, transitions>>

\* The page cursor is the index of the last node served; 0 stands for no cursor.
NoCursor == 0

NoUrl == [present |-> FALSE, valid |-> TRUE, path |-> <<>>]

IdleRun ==
    [pc |-> "idle", exit |-> None, env |-> None,
     status_field |-> NoField, pr_field |-> None,
     opt_ready |-> None, opt_inflight |-> None, opt_gate |-> <<>>,
     items |-> <<>>, after |-> NoCursor,
     item_id |-> None, number |-> 0,
     dispatch |-> None, started |-> FALSE, session_url |-> NoUrl, pr_id_value |-> <<>>,
     calls |-> <<>>, log |-> {}, landedBefore |-> 0, orphan |-> 0]

Init ==
    /\ \E sc \in Scenarios : \E pr \in sc.pr : \E choice \in ShapeChoices :
          /\ board = BoardOf(FieldsOf(sc.options, pr), choice)
          /\ cfg = sc.names
    /\ runs = [p \in Pollers |-> IdleRun]
    /\ runsStarted = 0
    /\ transitions = <<>>

(***************************************************************************)
(* Helpers of the actions.                                                 *)
(***************************************************************************)
\* A remote call: item and option are ids, number an issue number, a PR number
\* or a page cursor, text the text value of a field write, resp
\* the remote's answer.
Call(op, item, number, option, text, resp) ==
    [op |-> op, item |-> item, number |-> number, option |-> option, text |-> text,
     resp |-> resp]

Issued(r, op, resp) == [r EXCEPT !.calls = Append(@, Call(op, None, 0, None, <<>>, resp))]

\* gh_graphql(): an HTTPError is turned into SystemExit; any other failure of
\* urlopen (URLError) is raised as it is; a 2xx response is returned as text,
\* whether or not its payload carries errors.
GraphqlRaises(resp) ==
    CASE resp = "http" -> "SystemExit"
      [] resp = "neterr" -> "URLError"
      [] OTHER -> None

\* except Exception: SystemExit derives from BaseException and passes through.
ExceptException(exc) == exc \notin {None, "SystemExit"}

\* The process ends: status zero, SystemExit with a message ("error"), or an
\* uncaught exception ("crash").
Ended(r, exit, msg) == [r EXCEPT !.pc = "done", !.exit = exit, !.log = @ \cup {msg}]

Goto(r, pc) == [r EXCEPT !.pc = pc]

EnvStates == {"ok", "no_ORG", "no_GITHUB_REPOSITORY", "no_token"}

(***************************************************************************)
(* main(): reading the environment.                                        *)
(***************************************************************************)
\* History: the issue for which the previous run of the process created an
\* agent task before being interrupted, its status mutation not yet issued
\* (0: none).
Orphan(prev) == IF prev.exit = "cancelled" /\ prev.started THEN prev.number ELSE 0

EnvOutcome_AllSubscripts(r, env) ==
    IF env = "no_ORG"
    THEN Ended(r, "crash", "KeyError: 'ORG'")
    ELSE IF env = "no_GITHUB_REPOSITORY"
         THEN Ended(r, "crash", "KeyError: 'GITHUB_REPOSITORY'")
         ELSE Goto(r, "preflight_viewer")

\* org = os.environ["ORG"] (likewise PROJECT_NUMBER, STATUS_READY and
\* STATUS_INFLIGHT) raises KeyError; repo_full = os.environ.get(
\* "GITHUB_REPOSITORY"); if not repo_full: raise SystemExit("::error::...")
EnvOutcome(r, env) ==
    IF env = "no_ORG"
    THEN Ended(r, "crash", "KeyError: 'ORG'")
    ELSE IF env = "no_GITHUB_REPOSITORY"
         THEN Ended(r, "error", "::error::GITHUB_REPOSITORY not set")
         ELSE Goto(r, "preflight_viewer")

Start(p) ==
    /\ runs[p].pc \in {"idle", "done"}
    /\ runsStarted < MaxRuns
    /\ runsStarted' = runsStarted + 1
    /\ \E env \in EnvStates :
          LET r == [IdleRun EXCEPT !.env = env, !.landedBefore = Len(transitions),
                                   !.orphan = Orphan(runs[p])]
          IN  runs' = [runs EXCEPT ![p] = EnvOutcome(r, env)]
    /\ UNCHANGED <<board, cfg, transitions>>

(***************************************************************************)
(* preflight_check(): the identity probe, then the board-access probe.     *)
(***************************************************************************)
PreflightViewer(p) ==
    /\ runs[p].pc = "preflight_viewer"
    /\ LET r == runs[p]
       IN  IF r.env = "no_token"
           THEN runs' = [runs EXCEPT ![p] =
                    Ended(r, "error", "::error::GH_PROJECTS_TOKEN or GH_TOKEN not set")]
           ELSE \E resp \in {"ok", "nologin", "http", "neterr"} :
                    LET c == Issued(r, "viewer", resp)
                    IN  runs' = [runs EXCEPT ![p] =
                            CASE resp = "ok" -> Goto(c, "preflight_probe")
                              [] resp = "nologin" ->
                                   Ended(c, "error", "::error::GH_TOKEN appears invalid")
                              [] resp = "http" -> Ended(c, "error", "::error::GraphQL HTTP")
                              [] resp = "neterr" -> Ended(c, "crash", "URLError")]
    /\ UNCHANGED <<board, cfg, runsStarted, transitions>>

ProbeOutcome_ChecksBoard(c, resp) ==
    CASE resp = "ok" -> Goto(c, "load_project")
      [] resp \in {"errors", "missing"} ->
           Ended(c, "error", "::error::Token lacks access to organization projects")
      [] resp = "http" -> Ended(c, "error", "::error::GraphQL HTTP")
      [] resp = "neterr" -> Ended(c, "crash", "URLError")

\* if resp.get("errors"): raise SystemExit(...); nothing else of the response
\* is looked at ("missing": a 2xx response without errors whose projectV2
\* is null).
ProbeOutcome(c, resp) ==
    CASE resp \in {"ok", "missing"} -> Goto(c, "load_project")
      [] resp = "errors" ->
           Ended(c, "error", "::error::Token lacks access to organization projects")
      [] resp = "http" -> Ended(c, "error", "::error::GraphQL HTTP")
      [] resp = "neterr" -> Ended(c, "crash", "URLError")

PreflightProbe(p) ==
    /\ runs[p].pc = "preflight_probe"
    /\ \E resp \in {"ok", "missing", "errors", "http", "neterr"} :
          runs' = [runs EXCEPT ![p] = ProbeOutcome(Issued(runs[p], "probe", resp), resp)]
    /\ UNCHANGED <<board, cfg, runsStarted, transitions>>

(***************************************************************************)
(* main(): the project query, the Status field and the PR field.           *)
(***************************************************************************)
\* for fld in status_nodes: ... if normalize(fld["name"]) == "pr": pr_field = fld["id"]
FindPRField(fields) ==
    LET hits == {i \in DOMAIN fields :
                    fields[i].name # <<>> /\ normalize(fields[i].name) = T_pr}
    IN  IF hits = {} THEN None
        ELSE fields[CHOOSE i \in hits : \A j \in hits : i <= j].id

\* What the remote may answer to the project query: a board the probe
\* reported missing is not found by the project query either.
ProbeSaid(r, resp) == \E i \in DOMAIN r.calls : r.calls[i].op = "probe" /\ r.calls[i].resp = resp

LoadResponses(r) ==
    IF ProbeSaid(r, "missing")
    THEN {"errors", "noproject", "http", "neterr"}
    ELSE {"ok", "errors", "noproject", "nofields", "http", "neterr"}

LoadProject(p) ==
    /\ runs[p].pc = "load_project"
    /\ \E resp \in LoadResponses(runs[p]) :
          LET c == Issued(runs[p], "loadProject", resp)
              sf == StatusFieldOf(board.fields)
              pr == FindPRField(board.fields)
          IN  runs' = [runs EXCEPT ![p] =
                  CASE resp = "ok" ->
                         IF sf = NoField
                         THEN Ended(c, "crash", "StopIteration")
                         ELSE [c EXCEPT !.status_field = sf, !.pr_field = pr,
                                        !.pc = IF pr = None THEN "create_field" ELSE "resolve"]
                    [] resp = "errors" ->
                         Ended(c, "error", "::error::GraphQL error while loading project")
                    [] resp = "noproject" -> Goto(c, "list_projects")
                    [] resp = "nofields" ->
                         Ended(c, "error", "::error::Project fields are not accessible")
                    [] resp = "http" -> Ended(c, "error", "::error::GraphQL HTTP")
                    [] resp = "neterr" -> Ended(c, "crash", "URLError")]
    /\ UNCHANGED <<board, cfg, runsStarted, transitions>>

\* The best-effort listing of the organization's projects, then SystemExit.
ListProjects(p) ==
    /\ runs[p].pc = "list_projects"
    /\ runs' = [runs EXCEPT ![p] =
           Ended(Issued(runs[p], "listProjects", "ok"), "error",
                 "::error::Project not found or not accessible")]
    /\ UNCHANGED <<board, cfg, runsStarted, transitions>>

\* if not pr_field: createProjectV2Field(dataType: NUMBER, name: "PR")
CreateField(p) ==
    /\ runs[p].pc = "create_field"
    /\ \E resp \in {"ok", "noid", "nulldata", "http", "neterr"} :
          LET c == Issued(runs[p], "createField", resp)
          IN  /\ runs' = [runs EXCEPT ![p] =
                     CASE resp = "ok" -> [c EXCEPT !.pr_field = "F_pr", !.pc = "resolve"]
                       [] resp = "noid" ->
                            [c EXCEPT !.pr_field = None, !.pc = "resolve",
                                      !.log = @ \cup {"Warning: failed to create PR field"}]
                       [] resp = "nulldata" -> Ended(c, "crash", "AttributeError")
                       [] resp = "http" -> Ended(c, "error", "::error::GraphQL HTTP")
                       [] resp = "neterr" -> Ended(c, "crash", "URLError")]
              /\ board' = IF resp = "ok" /\ FindPRField(board.fields) = None
                          THEN [board EXCEPT !.fields = Append(@, PRField("NUMBER"))]
                          ELSE board
    /\ UNCHANGED <<cfg, runsStarted, transitions>>

\* The option loop and the check of the two mandatory options.
Resolve(p) ==
    /\ runs[p].pc = "resolve"
    /\ LET r == runs[p]
           res == ResolveOptions(r.status_field.options, cfg.status_ready, cfg.status_inflight)
           c == [r EXCEPT !.opt_ready = res.opt_ready, !.opt_inflight = res.opt_inflight,
                          !.opt_gate = res.opt_gate]
       IN  runs' = [runs EXCEPT ![p] =
               IF res.opt_ready = None \/ res.opt_inflight = None
               THEN Ended(c, "error", "::error::Could not resolve Status option IDs")
               ELSE Goto(c, "fetch")]
    /\ UNCHANGED <<board, cfg, runsStarted, transitions>>

(***************************************************************************)
(* fetch_all_items(): one page per step.  The remote serves the board's    *)
(* items in pages of PageSize; the cursor is the index of the last node    *)
(* served.                                                                 *)
(***************************************************************************)
PageSize == 100

Min(a, b) == IF a <= b THEN a ELSE b

RemotePage(items, after) ==
    LET start == after
        last == Min(start + PageSize, Len(items))
        nodes == SubSeq(items, start + 1, last)
    IN  [nodes |-> nodes,
         hasNextPage |-> last < Len(items),
         endCursor |-> IF nodes = <<>> THEN NoCursor ELSE last]

\* The node a scripted remote serves for a cursor.
PageNode(cursor) == [id |-> ItemIds[cursor + 1], content |-> NoContent, fieldValues |-> <<>>]

ScriptedPage(pages, after) ==
    [nodes |-> <<PageNode(after)>>,
     hasNextPage |-> pages[after].hasNextPage,
     endCursor |-> pages[after].endCursor]

ServedPage(b, after) ==
    IF DOMAIN b.pages = {} THEN RemotePage(b.items, after) ELSE ScriptedPage(b.pages, after)

AfterPage_KeepsCursor(got, page) ==
    IF ~page.hasNextPage \/ page.endCursor = NoCursor THEN Goto(got, "gate") ELSE got

AfterPage_IgnoresHasNext(got, page) ==
    IF page.endCursor = NoCursor
    THEN Goto(got, "gate")
    ELSE [got EXCEPT !.after = page.endCursor]

\* if not page.get("hasNextPage"): break
\* after = page.get("endCursor"); if not after: break
AfterPage(got, page) ==
    IF ~page.hasNextPage
    THEN Goto(got, "gate")
    ELSE IF page.endCursor = NoCursor
         THEN Goto([got EXCEPT !.after = NoCursor], "gate")
         ELSE [got EXCEPT !.after = page.endCursor]

FetchCount(r) == Cardinality({i \in DOMAIN r.calls : r.calls[i].op = "fetchItems"})

FetchPage(p) ==
    /\ runs[p].pc = "fetch"
    /\ FetchCount(runs[p]) < MaxFetches
    /\ \E resp \in {"ok", "errors", "http", "neterr"} :
          LET r == runs[p]
              c == [r EXCEPT !.calls = Append(@, Call("fetchItems", None, r.after, None, <<>>, resp))]
              page == ServedPage(board, r.after)
              got == [c EXCEPT !.items = @ \o page.nodes]
          IN  runs' = [runs EXCEPT ![p] =
                  CASE resp = "ok" -> AfterPage(got, page)
                    [] resp = "errors" ->
                         Ended(c, "error", "::error::GraphQL error while listing items")
                    [] resp = "http" -> Ended(c, "error", "::error::GraphQL HTTP")
                    [] resp = "neterr" -> Ended(c, "crash", "URLError")]
    /\ UNCHANGED <<board, cfg, runsStarted, transitions>>

(***************************************************************************)
(* main(): the gate and the selection of the candidate.                    *)
(***************************************************************************)
GateBlocked_OnlyWithContent(items, opt_gate) ==
    \E i \in DOMAIN items : \E k \in DOMAIN items[i].fieldValues :
        /\ items[i].content.typename # None
        /\ items[i].fieldValues[k].optionId \in Range(opt_gate)

\* for item in items: for fv in item["fieldValues"]["nodes"]: optionId in opt_gate
GateBlocked(items, opt_gate) ==
    \E i \in DOMAIN items : \E k \in DOMAIN items[i].fieldValues :
        items[i].fieldValues[k].optionId \in Range(opt_gate)

GateStep_NoReturn(r) ==
    IF GateBlocked(r.items, r.opt_gate)
    THEN [r EXCEPT !.pc = "select",
                   !.log = @ \cup {"Active item already in progress. Skipping intake."}]
    ELSE Goto(r, "select")

\* if blocked: print(...); return
GateStep(r) ==
    IF GateBlocked(r.items, r.opt_gate)
    THEN Ended(r, "zero", "Active item already in progress. Skipping intake.")
    ELSE Goto(r, "select")

Gate(p) ==
    /\ runs[p].pc = "gate"
    /\ runs' = [runs EXCEPT ![p] = GateStep(runs[p])]
    /\ UNCHANGED <<board, cfg, runsStarted, transitions>>

IsCandidate(item, o, rp, opt_ready) ==
    /\ item.content # NoContent
    /\ item.content.typename = "Issue"
    /\ item.content.owner = o /\ item.content.name = rp
    /\ \E k \in DOMAIN item.fieldValues : item.fieldValues[k].optionId = opt_ready

\* candidates.append((item["id"], content["number"])), in item order
RECURSIVE CandidatesFrom(_, _, _, _, _)
CandidatesFrom(items, i, o, rp, opt_ready) ==
    IF i > Len(items) THEN <<>>
    ELSE (IF IsCandidate(items[i], o, rp, opt_ready)
          THEN << [item_id |-> items[i].id, number |-> items[i].content.number] >>
          ELSE <<>>) \o CandidatesFrom(items, i + 1, o, rp, opt_ready)

Candidates(items, o, rp, opt_ready) == CandidatesFrom(items, 1, o, rp, opt_ready)

MinCandidate_First(cands) == cands[1]

\* min(candidates, key=lambda x: x[1]): the first pair with the least number
MinCandidate(cands) ==
    cands[CHOOSE i \in DOMAIN cands :
              /\ \A j \in DOMAIN cands : cands[i].number <= cands[j].number
              /\ \A j \in 1..(i - 1) : cands[j].number > cands[i].number]

Select(p) ==
    /\ runs[p].pc = "select"
    /\ LET r == runs[p]
           cands == Candidates(r.items, owner, repo, r.opt_ready)
       IN  runs' = [runs EXCEPT ![p] =
               IF cands = <<>>
               THEN Ended(r, "zero", "No items in Ready for Takeoff for this repository.")
               ELSE [r EXCEPT !.item_id = MinCandidate(cands).item_id,
                              !.number = MinCandidate(cands).number,
                              !.log = @ \cup {"Processing Issue"},
                              !.pc = "dispatch"]]
    /\ UNCHANGED <<board, cfg, runsStarted, transitions>>

(***************************************************************************)
(* main(): the try block that views the issue and creates the agent task.  *)
(***************************************************************************)
Url(valid, path) == [present |-> TRUE, valid |-> valid, path |-> path]

S_pull == <<"p","u","l","l">>

\* The URLs the agent-task output may carry; one of them is not parseable
\* by urlparse (it raises ValueError).
SessionUrls ==
    { Url(TRUE, <<<<"a","c","m","e">>, <<"a","p","p">>, <<"p","u","l","l">>, <<"4","2">>>>),
      Url(TRUE, <<<<"a","c","m","e">>, <<"a","p","p">>, <<"t","a","s","k","s">>, <<"9">>>>),
      Url(TRUE, <<<<"p","u","l","l">>, <<"x">>, <<"p","u","l","l">>, <<"4","2">>>>),
      Url(FALSE, <<>>) }

DispatchOutcomes == {"gh_missing", "view_fail", "task_fail", "ok"}

\* What the try block raises: FileNotFoundError when shutil.which finds no gh,
\* CalledProcessError when gh issue view or gh agent-task create exits non-zero.
DispatchRaises(out) ==
    CASE out = "gh_missing" -> "FileNotFoundError"
      [] out \in {"view_fail", "task_fail"} -> "CalledProcessError"
      [] OTHER -> None

DispatchCatches_OnlyFileNotFound(exc) == exc = "FileNotFoundError"

\* except subprocess.CalledProcessError / except FileNotFoundError
DispatchCatches(exc) == exc \in {"CalledProcessError", "FileNotFoundError"}

DispatchCalls_FirstItem(r, out) ==
    LET view == Call("issueView", None, r.items[1].content.number, None, <<>>,
                     IF out = "view_fail" THEN "fail" ELSE "ok")
        task == Call("agentTask", None, r.items[1].content.number, None, <<>>,
                     IF out = "task_fail" THEN "fail" ELSE "ok")
    IN  CASE out = "gh_missing" -> <<>>
          [] out = "view_fail" -> <<view>>
          [] OTHER -> <<view, task>>

\* gh issue view <number>; gh agent-task create -F - (the issue's title and body)
DispatchCalls(r, out) ==
    LET view == Call("issueView", None, r.number, None, <<>>,
                     IF out = "view_fail" THEN "fail" ELSE "ok")
        task == Call("agentTask", None, r.number, None, <<>>,
                     IF out = "task_fail" THEN "fail" ELSE "ok")
    IN  CASE out = "gh_missing" -> <<>>
          [] out = "view_fail" -> <<view>>
          [] OTHER -> <<view, task>>

Dispatch(p) ==
    /\ runs[p].pc = "dispatch"
    /\ \E out \in DispatchOutcomes : \E url \in SessionUrls \cup {NoUrl} :
          LET r == runs[p]
              c == [r EXCEPT !.calls = @ \o DispatchCalls(r, out), !.dispatch = out]
              exc == DispatchRaises(out)
          IN  /\ out # "ok" => url = NoUrl
              /\ runs' = [runs EXCEPT ![p] =
                     IF exc = None
                     THEN [c EXCEPT !.pc = "comment", !.started = TRUE, !.session_url = url]
                     ELSE IF DispatchCatches(exc)
                          THEN [c EXCEPT !.pc = "comment",
                                         !.log = @ \cup {IF exc = "FileNotFoundError"
                                                         THEN "gh CLI not found"
                                                         ELSE "agent-task creation failed"}]
                          ELSE Ended(c, "crash", exc)]
    /\ UNCHANGED <<board, cfg, runsStarted, transitions>>

(***************************************************************************)
(* main(): the kickoff comment (gh_command runs subprocess.check_call      *)
(* outside any try block).                                                 *)
(***************************************************************************)
\* if started and session_url:
MayPostComment(r) == r.started /\ r.session_url.present

PostComment(p) ==
    /\ runs[p].pc = "comment"
    /\ LET r == runs[p]
       IN  IF MayPostComment(r)
           THEN \E resp \in {"ok", "fail"} :
                    LET c == [r EXCEPT !.calls = Append(@,
                                  Call("comment", None, r.number, None, <<>>, resp))]
                    IN  runs' = [runs EXCEPT ![p] =
                            IF resp = "ok"
                            THEN Goto(c, "store_pr")
                            ELSE Ended(c, "crash", "CalledProcessError")]
           ELSE runs' = [runs EXCEPT ![p] = Goto(r, "store_pr")]
    /\ UNCHANGED <<board, cfg, runsStarted, transitions>>

(***************************************************************************)
(* main(): the PR number of the session URL, stored in the PR field.       *)
(***************************************************************************)
IsDigitStr(seg) == seg # <<>> /\ \A i \in DOMAIN seg : seg[i] \in Digits

DigitValue(ch) == CHOOSE n \in 0..9 : ToString(n) = ch

RECURSIVE ToInt(_)
ToInt(seg) ==
    IF seg = <<>> THEN 0
    ELSE 10 * ToInt(SubSeq(seg, 1, Len(seg) - 1)) + DigitValue(seg[Len(seg)])

\* for idx, part in enumerate(parts): if part == "pull" and idx + 1 < len(parts):
\*     candidate = parts[idx + 1]; if candidate.isdigit(): pr_id_value = candidate; break
ExtractPR(parts) ==
    LET hits == {i \in DOMAIN parts : parts[i] = S_pull /\ i < Len(parts)}
    IN  IF hits = {} THEN <<>>
        ELSE LET first == CHOOSE i \in hits : \A j \in hits : i <= j
             IN  IF IsDigitStr(parts[first + 1]) THEN parts[first + 1] ELSE <<>>

PRFieldType(fields) ==
    LET hits == {i \in DOMAIN fields : fields[i].id = "F_pr"}
    IN  IF hits = {} THEN None ELSE fields[CHOOSE i \in hits : TRUE].dataType

\* What the remote may answer to the numeric write: a NUMBER value is
\* rejected (a 2xx response carrying errors) when the field is not numeric.
NumberResponses(fields) ==
    IF PRFieldType(fields) = "NUMBER"
    THEN {"ok", "errors", "http", "neterr"}
    ELSE {"errors", "http", "neterr"}

\* if started and session_url and pr_field:
MayStorePR(r) == r.started /\ r.session_url.present /\ r.pr_field # None

StorePRNumber(p) ==
    /\ runs[p].pc = "store_pr"
    /\ LET r == runs[p]
           value == ExtractPR(r.session_url.path)
       IN  IF MayStorePR(r)
           THEN IF ~r.session_url.valid
                THEN runs' = [runs EXCEPT ![p] =
                         [r EXCEPT !.pc = "update_status",
                                   !.log = @ \cup {"Warning: could not store PR id"}]]
                ELSE IF value = <<>>
                     THEN runs' = [runs EXCEPT ![p] = Goto(r, "update_status")]
                     ELSE \E resp \in NumberResponses(board.fields) :
                              LET c == [r EXCEPT !.pr_id_value = value,
                                                 !.calls = Append(@,
                                                     Call("setNumber", r.item_id, ToInt(value),
                                                          None, <<>>, resp))]
                                  exc == GraphqlRaises(resp)
                              IN  runs' = [runs EXCEPT ![p] =
                                      IF exc = None
                                      THEN Goto(c, "update_status")
                                      ELSE IF ExceptException(exc)
                                           THEN Goto(c, "store_pr_text")
                                           ELSE Ended(c, "error", "::error::GraphQL HTTP")]
           ELSE runs' = [runs EXCEPT ![p] = Goto(r, "update_status")]
    /\ UNCHANGED <<board, cfg, runsStarted, transitions>>

\* except Exception: the fallback that writes the number as text; what it
\* raises reaches the outer except Exception.
StorePRText(p) ==
    /\ runs[p].pc = "store_pr_text"
    /\ \E resp \in {"ok", "errors", "http", "neterr"} :
          LET r == runs[p]
              c == [r EXCEPT !.calls = Append(@,
                        Call("setText", r.item_id, 0, None, r.pr_id_value, resp))]
              exc == GraphqlRaises(resp)
          IN  runs' = [runs EXCEPT ![p] =
                  IF exc = None
                  THEN Goto(c, "update_status")
                  ELSE IF ExceptException(exc)
                       THEN [c EXCEPT !.pc = "update_status",
                                      !.log = @ \cup {"Warning: could not store PR id"}]
                       ELSE Ended(c, "error", "::error::GraphQL HTTP")]
    /\ UNCHANGED <<board, cfg, runsStarted, transitions>>

(***************************************************************************)
(* main(): the status update, the last statement of a run.                 *)
(***************************************************************************)
StatusOf(item) ==
    LET hits == {k \in DOMAIN item.fieldValues : item.fieldValues[k].field = "F_status"}
    IN  IF hits = {} THEN None ELSE item.fieldValues[CHOOSE k \in hits : TRUE].optionId

\* The effect, on the remote board, of updateProjectV2ItemFieldValue with a
\* singleSelectOptionId.
SetStatus(items, item_id, option) ==
    [i \in DOMAIN items |->
        IF items[i].id # item_id THEN items[i]
        ELSE [items[i] EXCEPT !.fieldValues =
                 SelectSeq(@, LAMBDA fv : fv.field # "F_status") \o
                 << [field |-> "F_status", optionId |-> option] >>]]

ItemById(items, item_id) == items[CHOOSE i \in DOMAIN items : items[i].id = item_id]

MayUpdateStatus_Always(r) == TRUE

\* if started:
MayUpdateStatus(r) == r.started

StatusCalls_Reread(r, resp) ==
    <<Call("fetchItems", None, NoCursor, None, <<>>, "ok"),
      Call("setStatus", r.item_id, 0, r.opt_inflight, <<>>, resp)>>

\* gh_graphql(mutation, project=..., item=item_id, field=status_field["id"],
\* option=opt_inflight): the one remote call of the block.
StatusCalls(r, resp) == <<Call("setStatus", r.item_id, 0, r.opt_inflight, <<>>, resp)>>

UpdateStatus(p) ==
    /\ runs[p].pc = "update_status"
    /\ LET r == runs[p]
       IN  IF MayUpdateStatus(r)
           THEN \E resp \in {"ok", "errors", "http", "neterr"} :
                    LET c == [r EXCEPT !.calls = @ \o StatusCalls(r, resp)]
                    IN  /\ runs' = [runs EXCEPT ![p] =
                               CASE resp \in {"ok", "errors"} ->
                                      [c EXCEPT !.pc = "done", !.exit = "zero"]
                                 [] resp = "http" -> Ended(c, "error", "::error::GraphQL HTTP")
                                 [] resp = "neterr" -> Ended(c, "crash", "URLError")]
                        /\ IF resp = "ok"
                           THEN /\ board' = [board EXCEPT !.items =
                                                SetStatus(@, r.item_id, r.opt_inflight)]
                                /\ transitions' = Append(transitions,
                                       [item |-> r.item_id,
                                        from |-> StatusOf(ItemById(board.items, r.item_id)),
                                        to |-> r.opt_inflight])
                           ELSE UNCHANGED <<board, transitions>>
           ELSE /\ runs' = [runs EXCEPT ![p] = Ended(r, "zero", "No action taken")]
                /\ UNCHANGED <<board, transitions>>
    /\ UNCHANGED <<cfg, runsStarted>>

(***************************************************************************)
(* Specification: one poller process, triggered again and again by the     *)
(* scheduler, so that runs never overlap.                                  *)
(***************************************************************************)
Step(p) ==
    \/ Start(p)
    \/ PreflightViewer(p)
    \/ PreflightProbe(p)
    \/ LoadProject(p)
    \/ ListProjects(p)
    \/ CreateField(p)
    \/ Resolve(p)
    \/ FetchPage(p)
    \/ Gate(p)
    \/ Select(p)
    \/ Dispatch(p)
    \/ PostComment(p)
    \/ StorePRNumber(p)
    \/ StorePRText(p)
    \/ UpdateStatus(p)

Next == Step("p1")

Spec == Init /\ [][Next]_vars

(***************************************************************************)
(* Specification with interruption: the workflow job that runs the process *)
(* may be cancelled at any statement; what the run has done on the remote  *)
(* side stays done.                                                        *)
(***************************************************************************)
Cancel(p) ==
    /\ runs[p].pc \notin {"idle", "done"}
    /\ runs' = [runs EXCEPT ![p] = Ended(runs[p], "cancelled", "KeyboardInterrupt")]
    /\ UNCHANGED <<board, cfg, runsStarted, transitions>>

NextCancel == Next \/ Cancel("p1")

SpecCancel == Init /\ [][NextCancel]_vars

(***************************************************************************)
(* Specification with two poller processes whose runs may overlap (two     *)
(* workflow runs on the same board), each step of a run being one remote   *)
(* call or one local block.                                                *)
(***************************************************************************)
\* The board both processes work on: the ready issues #5 and #3.
ConcurrentChoices == {<<1, 2>>}

InitConcurrent ==
    /\ \E pr \in {"", "NUMBER"} : \E choice \in ConcurrentChoices :
          board = BoardOf(FieldsOf(<<Opt("o1", T_Ready), Opt("o2", T_InFlight),
                                     Opt("o3", T_Debrief), Opt("o4", T_Done)>>, pr), choice)
    /\ cfg = Names(T_Ready, T_InFlight)
    /\ runs = [p \in Pollers |-> IdleRun]
    /\ runsStarted = 0
    /\ transitions = <<>>

NextConcurrent == \E p \in Pollers : Step(p)

SpecConcurrent == InitConcurrent /\ [][NextConcurrent]_vars

(***************************************************************************)
(* Specification of normalize() and of the option loop: the run is about   *)
(* to resolve a STATUS_READY name drawn from the texts of at most MaxLen   *)
(* characters over letters, a space, a decoration and U+0130.              *)
(***************************************************************************)
NameChars == {"R", "e", " ", "*", I_DotAbove}

Texts == UNION { [1..n -> NameChars] : n \in 0..MaxLen }

LabelOptions ==
    <<Opt("o1", T_ReadyDecorated), Opt("o2", T_InFlightDecorated), Opt("o3", T_Done)>>

InitNormalize ==
    /\ board = BoardOf(FieldsOf(LabelOptions, "NUMBER"), <<>>)
    /\ \E t \in Texts : cfg = Names(t, T_InFlight)
    /\ runs = [p \in Pollers |->
                 IF p = "p1"
                 THEN [IdleRun EXCEPT !.pc = "resolve", !.env = "ok",
                                      !.status_field = StatusField(LabelOptions),
                                      !.pr_field = "F_pr",
                                      !.calls = <<Call("viewer", None, 0, None, <<>>, "ok"),
                                                  Call("probe", None, 0, None, <<>>, "ok"),
                                                  Call("loadProject", None, 0, None, <<>>, "ok")>>]
                 ELSE IdleRun]
    /\ runsStarted = 1
    /\ transitions = <<>>

NextNormalize == Resolve("p1")

SpecNormalize == InitNormalize /\ [][NextNormalize]_vars

(***************************************************************************)
(* Specification of fetch_all_items() on its own, against a remote that    *)
(* answers each cursor with a scripted pageInfo: any hasNextPage, any      *)
(* endCursor (none, a fresh one, one already served).                      *)
(***************************************************************************)
Cursors == 0..MaxCursor

PageInfos == [hasNextPage : BOOLEAN, endCursor : Cursors]

InitFetch ==
    /\ \E pages \in [Cursors -> PageInfos] :
          board = [fields |-> FieldsOf(<<Opt("o1", T_Ready), Opt("o2", T_InFlight)>>, "NUMBER"),
                   items |-> <<>>, pages |-> pages]
    /\ cfg = Names(T_Ready, T_InFlight)
    /\ runs = [p \in Pollers |-> IF p = "p1" THEN Goto(IdleRun, "fetch") ELSE IdleRun]
    /\ runsStarted = 1
    /\ transitions = <<>>

NextFetch == FetchPage("p1")

SpecFetch == InitFetch /\ [][NextFetch]_vars

(***************************************************************************)
(* Properties.                                                             *)
(***************************************************************************)
Ops(r) == {r.calls[i].op : i \in DOMAIN r.calls}

Mutations == {"createField", "comment", "setNumber", "setText", "setStatus"}

BlockedMsg == "Active item already in progress. Skipping intake."

\* The dispatch step failed in this run.
DispatchFailed(r) == r.dispatch \in {"gh_missing", "view_fail", "task_fail"}

CommentFailed(r) == \E i \in DOMAIN r.calls : r.calls[i].op = "comment" /\ r.calls[i].resp = "fail"

\* The run got as far as the gate check.
ReachedGate(r) ==
    \/ r.pc \in {"select", "dispatch", "comment", "store_pr", "store_pr_text", "update_status"}
    \/ r.pc = "done" /\ (r.log \cap {BlockedMsg, "Processing Issue",
                                     "No items in Ready for Takeoff for this repository."} # {})

HoldsOption(item, ids) ==
    \E k \in DOMAIN item.fieldValues : item.fieldValues[k].optionId \in ids

\* C1: the status mutation is issued only with started = TRUE and after the
\* agent-task call of the same run succeeded, and no remote call of the run
\* follows it.
C1_StatusMutationLast ==
    \A p \in Pollers :
        LET r == runs[p]
        IN  \A i \in DOMAIN r.calls :
                r.calls[i].op = "setStatus" =>
                    /\ r.started
                    /\ i = Len(r.calls)
                    /\ \E j \in 1..(i - 1) : r.calls[j].op = "agentTask" /\ r.calls[j].resp = "ok"

C1_Witness ==
    \E p \in Pollers :
        LET r == runs[p]
        IN  /\ r.pc = "done" /\ r.exit = "zero"
            /\ {"comment", "setNumber", "setStatus"} \subseteq Ops(r)
            /\ r.calls[Len(r.calls)].op = "setStatus"

\* C2: on a board that starts with no item in a gate status (nor in the
\* configured in-flight status), at most one item ever holds the in-flight
\* option, and a run that starts after a status transition has landed is
\* blocked at the gate and creates no agent task.
Resolved ==
    ResolveOptions(StatusFieldOf(board.fields).options, cfg.status_ready, cfg.status_inflight)

\* The Status option an item held before any run changed it.
InitialStatus(item) ==
    LET hits == {t \in DOMAIN transitions : transitions[t].item = item.id}
    IN  IF hits = {} THEN StatusOf(item)
        ELSE transitions[CHOOSE t \in hits : \A u \in hits : t <= u].from

InitiallyFree ==
    \A i \in DOMAIN board.items :
        InitialStatus(board.items[i]) \notin Range(Resolved.opt_gate) \cup {Resolved.opt_inflight}

InFlightHolders ==
    {i \in DOMAIN board.items :
        Resolved.opt_inflight # None /\ StatusOf(board.items[i]) = Resolved.opt_inflight}

C2_SingleInFlight ==
    /\ (Len(transitions) > 0 /\ InitiallyFree) => Cardinality(InFlightHolders) <= 1
    /\ \A p \in Pollers :
           LET r == runs[p]
           IN  r.landedBefore > 0 =>
                   /\ r.pc \notin {"select", "dispatch", "comment", "store_pr",
                                   "store_pr_text", "update_status"}
                   /\ "agentTask" \notin Ops(r)

\* C3: a run that reaches the gate is blocked iff some fetched item, whatever
\* its content, has a field value whose optionId is in the resolved gate set;
\* the items checked are the items of the board; no items, no block.
C3_GateIff ==
    \A p \in Pollers :
        LET r == runs[p]
        IN  /\ r.pc = "gate" => r.items = board.items
            /\ ReachedGate(r) =>
                   /\ (BlockedMsg \in r.log) <=>
                          (\E i \in DOMAIN r.items : HoldsOption(r.items[i], Range(r.opt_gate)))
                   /\ r.items = <<>> => BlockedMsg \notin r.log

C3_Witness ==
    \E p \in Pollers :
        LET r == runs[p]
        IN  /\ BlockedMsg \in r.log
            /\ \E i \in DOMAIN r.items :
                   /\ r.items[i].content = NoContent
                   /\ HoldsOption(r.items[i], Range(r.opt_gate))
            /\ \A i \in DOMAIN r.items :
                   r.items[i].content # NoContent => ~HoldsOption(r.items[i], Range(r.opt_gate))

\* C4: once the gate diagnostic is printed the run is over, with status zero:
\* no candidate was selected and no issue view, agent task, comment, PR field
\* write or status update was issued.
C4_BlockedRunStops ==
    \A p \in Pollers :
        LET r == runs[p]
        IN  BlockedMsg \in r.log =>
                /\ r.pc = "done" /\ r.exit = "zero"
                /\ r.item_id = None /\ ~r.started
                /\ "Processing Issue" \notin r.log
                /\ Ops(r) \cap {"issueView", "agentTask", "comment", "setNumber", "setText",
                                "setStatus"} = {}
                /\ r.calls[Len(r.calls)].op = "fetchItems"

C4_Witness ==
    \E p \in Pollers :
        LET r == runs[p]
        IN  /\ BlockedMsg \in r.log /\ r.pc = "done"
            /\ \E i \in DOMAIN r.items :
                   IsCandidate(r.items[i], owner, repo, r.opt_ready)

\* C5: a run blocked at the gate has issued no mutation.
C5_BlockedRunNoMutation ==
    \A p \in Pollers :
        LET r == runs[p]
        IN  BlockedMsg \in r.log => Ops(r) \cap Mutations = {}

\* C6: a run whose dispatch failed (started = FALSE, "No action taken") has
\* issued no mutation.
C6_FailedDispatchNoMutation ==
    \A p \in Pollers :
        LET r == runs[p]
        IN  (r.pc = "done" /\ ~r.started /\ "No action taken" \in r.log) =>
                Ops(r) \cap Mutations = {}

C8_CommentFailureSwallowed ==
    \A p \in Pollers :
        LET r == runs[p]
        IN  (r.started /\ CommentFailed(r)) =>
                /\ r.exit \notin {"crash", "error"}
                /\ r.pc = "done" => "setStatus" \in Ops(r)

\* C9: when a PR field write fails after a successful dispatch (whatever the
\* remote answers to the numeric or to the text mutation), the status
\* mutation is still issued before the run ends.
AuxFailed(r) ==
    \/ \E i \in DOMAIN r.calls :
           r.calls[i].op \in {"setNumber", "setText"} /\ r.calls[i].resp # "ok"
    \/ "Warning: could not store PR id" \in r.log

C9_AuxFailureSwallowed ==
    \A p \in Pollers :
        LET r == runs[p]
        IN  (r.started /\ AuxFailed(r) /\ r.pc = "done") => "setStatus" \in Ops(r)

\* C10: the numeric write of PR number N comes first; when it fails, for any
\* reason, the next call is the text write of N as a string; when it succeeds
\* there is no text write.
C10_TextFallback ==
    \A p \in Pollers :
        LET r == runs[p]
        IN  /\ \A i \in DOMAIN r.calls :
                   r.calls[i].op = "setText" =>
                       /\ i > 1 /\ r.calls[i - 1].op = "setNumber"
                       /\ r.calls[i - 1].resp # "ok"
                       /\ ToInt(r.calls[i].text) = r.calls[i - 1].number
            /\ \A i \in DOMAIN r.calls :
                   (r.calls[i].op = "setNumber" /\ r.calls[i].resp # "ok"
                    /\ r.pc # "store_pr_text") =>
                       (i < Len(r.calls) /\ r.calls[i + 1].op = "setText")

\* The diagnostics of the configuration errors: a missing input, an invalid
\* credential, a board that is not accessible or does not exist, a
\* mandatory option that does not resolve.
ConfigDiagnostics ==
    {"::error::GITHUB_REPOSITORY not set",
     "::error::GH_PROJECTS_TOKEN or GH_TOKEN not set",
     "::error::GH_TOKEN appears invalid",
     "::error::Token lacks access to organization projects",
     "::error::GraphQL error while loading project",
     "::error::Project not found or not accessible",
     "::error::Project fields are not accessible",
     "::error::Could not resolve Status option IDs"}

\* C11: a run that ends on a configuration error has issued no mutation; in
\* particular a run that fails to resolve the ready or the in-flight option
\* has issued none.
C11_ConfigErrorBeforeMutation ==
    \A p \in Pollers :
        LET r == runs[p]
        IN  (r.pc = "done" /\ r.log \cap ConfigDiagnostics # {}) =>
                Ops(r) \cap Mutations = {}

\* An item the claim allows to be selected: an Issue of the configured owner
\* and repository that holds the ready option.
Eligible(item, opt_ready) ==
    /\ item.content.typename = "Issue"
    /\ item.content.owner = owner /\ item.content.name = repo
    /\ StatusOf(item) = opt_ready

EligibleIn(r) == {i \in DOMAIN r.items : Eligible(r.items[i], r.opt_ready)}

\* C12: the item a run selects is the eligible item of least issue number,
\* wherever it stands in the fetched list; items of other repositories, pull
\* requests and items without content are never selected; the run reports
\* that there is nothing to take exactly when no item is eligible.
C12_SelectsLowest ==
    \A p \in Pollers :
        LET r == runs[p]
        IN  /\ r.item_id # None =>
                   \E i \in EligibleIn(r) :
                       /\ r.items[i].id = r.item_id
                       /\ r.items[i].content.number = r.number
                       /\ \A j \in EligibleIn(r) : r.number <= r.items[j].content.number
            /\ "No items in Ready for Takeoff for this repository." \in r.log =>
                   EligibleIn(r) = {}
            /\ (r.pc = "done" /\ "Processing Issue" \in r.log) => r.item_id # None

C12_Witness ==
    \E p \in Pollers :
        LET r == runs[p]
        IN  /\ r.pc = "dispatch"
            /\ \E i, j \in EligibleIn(r) : i < j /\ r.items[j].id = r.item_id

\* The positions of the options whose normalized name equals the normalized
\* wanted name, and of those whose normalized name contains all its tokens.
ExactMatches(options, wanted) ==
    {i \in DOMAIN options : normalize(options[i].name) = normalize(wanted)}

TokenMatches(options, wanted) ==
    {i \in DOMAIN options :
        \A tok \in Range(split(normalize(wanted))) :
            IsSubstring(tok, normalize(options[i].name))}

\* C13: when some option's normalized name equals the normalized wanted name,
\* the resolved id is the id of such an option, whatever other options
\* before or after it contain the wanted tokens.
C13_ExactMatchFirst ==
    \A p \in Pollers :
        LET r == runs[p]
            opts == r.status_field.options
        IN  r.pc = "fetch" =>
                /\ ExactMatches(opts, cfg.status_ready) # {} =>
                       \E i \in ExactMatches(opts, cfg.status_ready) : r.opt_ready = opts[i].id
                /\ ExactMatches(opts, cfg.status_inflight) # {} =>
                       \E i \in ExactMatches(opts, cfg.status_inflight) :
                           r.opt_inflight = opts[i].id

\* C14: when no option matches exactly, the resolved id is the id of the
\* first option, in list order, whose normalized name contains every token
\* of the wanted name.
FirstOf(S) == CHOOSE i \in S : \A j \in S : i <= j

C14_FirstTokenMatch ==
    \A p \in Pollers :
        LET r == runs[p]
            opts == r.status_field.options
        IN  r.pc = "fetch" =>
                /\ (ExactMatches(opts, cfg.status_ready) = {}
                    /\ TokenMatches(opts, cfg.status_ready) # {}) =>
                       r.opt_ready = opts[FirstOf(TokenMatches(opts, cfg.status_ready))].id
                /\ (ExactMatches(opts, cfg.status_inflight) = {}
                    /\ TokenMatches(opts, cfg.status_inflight) # {}) =>
                       r.opt_inflight = opts[FirstOf(TokenMatches(opts, cfg.status_inflight))].id

\* The pages of the ok fetch calls of a run, in call order.
RECURSIVE FetchedNodes(_, _, _)
FetchedNodes(b, calls, i) ==
    IF i > Len(calls) THEN <<>>
    ELSE (IF calls[i].op = "fetchItems" /\ calls[i].resp = "ok"
          THEN ServedPage(b, calls[i].number).nodes
          ELSE <<>>) \o FetchedNodes(b, calls, i + 1)

LastPage(page) == ~page.hasNextPage \/ page.endCursor = NoCursor

\* C15: the first fetch carries no cursor; every later fetch follows an
\* answered page that reported hasNextPage with a cursor, and carries that
\* cursor; the items are the nodes of the answered pages in fetch order; the
\* function returns exactly after a page without next page or without
\* cursor, one fetch per page served.
C15_OneFetchPerPage ==
    LET r == runs["p1"]
        n == Len(r.calls)
    IN  /\ n >= 1 => r.calls[1].number = NoCursor
        /\ \A i \in 2..n :
               LET prev == ServedPage(board, r.calls[i - 1].number)
               IN  /\ r.calls[i - 1].resp = "ok"
                   /\ ~LastPage(prev)
                   /\ r.calls[i].number = prev.endCursor
        /\ r.items = FetchedNodes(board, r.calls, 1)
        /\ r.pc = "gate" <=>
               (n >= 1 /\ r.calls[n].resp = "ok"
                /\ LastPage(ServedPage(board, r.calls[n].number)))
        /\ r.pc = "gate" => Len(r.items) = n

C15_Witness ==
    LET r == runs["p1"]
    IN  /\ r.pc = "gate" /\ Len(r.calls) = 3
        /\ r.items = <<PageNode(0), PageNode(1), PageNode(2)>>
        /\ board.pages[2].hasNextPage /\ board.pages[2].endCursor = NoCursor

NoCursorTwice(r) ==
    \A i, j \in DOMAIN r.calls :
        (i < j /\ r.calls[i].op = "fetchItems" /\ r.calls[j].op = "fetchItems") =>
            r.calls[i].number # r.calls[j].number

\* C16, as claimed: the loop ends whatever the remote answers.  The remote
\* answers a cursor with one page, so a loop that requests a cursor it has
\* requested before goes round for ever: no run requests a cursor twice.
C16_TerminatesAlways == NoCursorTwice(runs["p1"])

\* The number of pages from cursor c up to the first page without next page
\* or without cursor; 0 when no such page is reached within fuel pages.
RECURSIVE ChainLen(_, _, _)
ChainLen(b, c, fuel) ==
    IF fuel = 0 THEN 0
    ELSE IF LastPage(ServedPage(b, c)) THEN 1
         ELSE LET rest == ChainLen(b, ServedPage(b, c).endCursor, fuel - 1)
              IN  IF rest = 0 THEN 0 ELSE rest + 1

\* C16, amended: when the chain of pages served from the first one reaches a
\* page that reports no next page or returns no cursor, the loop issues at
\* most as many fetches as the chain has pages, is still running only with
\* fewer fetches than that, requests no cursor twice, and returns the nodes
\* of the whole chain after its last page.
C16_TerminatesOnEndingChain ==
    LET r == runs["p1"]
        len == ChainLen(board, NoCursor, MaxCursor + 1)
    IN  len > 0 =>
            /\ FetchCount(r) <= len
            /\ r.pc = "fetch" => FetchCount(r) < len
            /\ r.pc = "gate" => (FetchCount(r) = len /\ Len(r.items) = len)
            /\ NoCursorTwice(r)

C16_Witness ==
    LET r == runs["p1"]
    IN  /\ ChainLen(board, NoCursor, MaxCursor + 1) = MaxCursor + 1
        /\ r.pc = "gate"
        /\ ~board.pages[r.calls[Len(r.calls)].number].hasNextPage
        /\ board.pages[r.calls[Len(r.calls)].number].endCursor # NoCursor

CountOf(r, op) == Cardinality({i \in DOMAIN r.calls : r.calls[i].op = op})

\* C17: a run changes the status of at most one item, from the ready to the
\* in-flight option; a run whose dispatch succeeded issues exactly one
\* status mutation, for the selected item (ready in the fetched snapshot)
\* and with the in-flight option; the comment is posted once when a session
\* URL was found and not otherwise; no step is issued twice.
C17_OneTransitionPerRun ==
    \A p \in Pollers :
        LET r == runs[p]
        IN  r.pc # "idle" =>
            /\ Len(transitions) <= r.landedBefore + 1
            /\ \A t \in (r.landedBefore + 1)..Len(transitions) :
                   /\ transitions[t].item = r.item_id
                   /\ transitions[t].from = r.opt_ready
                   /\ transitions[t].to = r.opt_inflight
            /\ \A i \in DOMAIN r.calls :
                   r.calls[i].op = "setStatus" =>
                       /\ r.calls[i].item = r.item_id
                       /\ r.calls[i].option = r.opt_inflight
                       /\ Eligible(ItemById(r.items, r.item_id), r.opt_ready)
            /\ (r.pc = "done" /\ r.started) => CountOf(r, "setStatus") = 1
            /\ (r.dispatch # None /\ r.pc # "comment") =>
                   CountOf(r, "comment") = IF r.started /\ r.session_url.present THEN 1 ELSE 0
            /\ \A op \in {"issueView", "agentTask", "comment", "setNumber", "setText",
                           "setStatus"} : CountOf(r, op) <= 1

\* The lines of the log that start with "::error::".
ErrorLines ==
    ConfigDiagnostics \cup {"::error::GraphQL HTTP", "::error::GraphQL error while listing items"}

NonZero == {"error", "crash"}

\* A required input is missing from the environment of the run.
MissingInput(r) == r.env \in {"no_ORG", "no_GITHUB_REPOSITORY", "no_token"}

\* A run that found no candidate, a gated run and a run whose dispatch
\* failed end with status zero and an informational line; a run whose
\* status mutation landed ends with status zero.
BenignOutcomesZero(r) ==
    /\ "No items in Ready for Takeoff for this repository." \in r.log =>
           (r.pc = "done" /\ r.exit = "zero")
    /\ BlockedMsg \in r.log => (r.pc = "done" /\ r.exit = "zero")
    /\ (DispatchFailed(r) /\ r.pc = "done") =>
           (r.exit = "zero" /\ "No action taken" \in r.log)
    /\ (r.pc = "done" /\ Len(transitions) > r.landedBefore) => r.exit = "zero"

\* C18, as claimed: every configuration error, a missing required input
\* included, ends the run non-zero with a line that starts with "::error::".
C18_ConfigErrorsPrefixed ==
    \A p \in Pollers :
        LET r == runs[p]
        IN  r.pc = "done" =>
                /\ (MissingInput(r) \/ r.log \cap ConfigDiagnostics # {}) =>
                       (r.exit \in NonZero /\ r.log \cap ErrorLines # {})
                /\ BenignOutcomesZero(r)

\* C18, amended: a run that ends by SystemExit ends non-zero and its line
\* starts with "::error::"; this covers a missing GITHUB_REPOSITORY or
\* token and every configuration diagnostic.  A missing ORG (likewise
\* PROJECT_NUMBER, STATUS_READY, STATUS_INFLIGHT) ends the run non-zero by
\* an uncaught KeyError, before any remote call and without such a line.
\* The benign outcomes end with status zero.
C18_ExitStatus ==
    \A p \in Pollers :
        LET r == runs[p]
        IN  r.pc = "done" =>
                /\ r.exit = "error" <=> r.log \cap ErrorLines # {}
                /\ r.log \cap ConfigDiagnostics # {} => r.exit = "error"
                /\ r.env \in {"no_GITHUB_REPOSITORY", "no_token"} => r.exit = "error"
                /\ r.env = "no_ORG" =>
                       /\ r.exit = "crash" /\ r.log = {"KeyError: 'ORG'"}
                       /\ r.calls = <<>>
                /\ BenignOutcomesZero(r)

C18_Witness ==
    \E p \in Pollers :
        LET r == runs[p]
        IN  r.pc = "done" /\ r.env = "no_ORG" /\ r.exit = "crash"

\* The identity probe is the first remote call of a run and the board-access
\* probe the second, issued after an identity was returned; a run whose
\* identity probe returns no identity ends there with the credential
\* diagnostic.
ProbesFirst(r) ==
    /\ \A i \in DOMAIN r.calls :
           /\ r.calls[i].op = "viewer" => i = 1
           /\ r.calls[i].op = "probe" =>
                  (i = 2 /\ r.calls[1].op = "viewer" /\ r.calls[1].resp = "ok")
           /\ i >= 3 => (r.calls[1].op = "viewer" /\ r.calls[2].op = "probe")
    /\ (r.calls # <<>> /\ r.calls[1].resp = "nologin") =>
           /\ Len(r.calls) = 1 /\ r.pc = "done" /\ r.exit = "error"
           /\ "::error::GH_TOKEN appears invalid" \in r.log

\* The run ended at the board-access probe, with a configuration error.
EndedAtProbe(r) ==
    /\ Len(r.calls) = 2 /\ r.pc = "done" /\ r.exit = "error"
    /\ r.log \cap ConfigDiagnostics # {}

HasSelected(r) == r.item_id # None

\* C20: a run interrupted after its dispatch succeeded and before its status
\* mutation was issued leaves the selected item in the ready status; the
\* next run over that board is not blocked at the gate, finds a candidate,
\* selects the same issue and, when its dispatch succeeds, has created a
\* second agent task for it.
C20_InterruptedRunRedispatched ==
    \A p \in Pollers :
        LET r == runs[p]
        IN  /\ (r.exit = "cancelled" /\ r.started) =>
                   /\ "setStatus" \notin Ops(r)
                   /\ StatusOf(ItemById(board.items, r.item_id)) = r.opt_ready
            /\ r.orphan # 0 =>
                   /\ BlockedMsg \notin r.log
                   /\ "No items in Ready for Takeoff for this repository." \notin r.log
                   /\ HasSelected(r) => r.number = r.orphan
                   /\ r.dispatch = "ok" =>
                          \E i \in DOMAIN r.calls :
                              /\ r.calls[i].op = "agentTask" /\ r.calls[i].resp = "ok"
                              /\ r.calls[i].number = r.orphan

C20_Witness ==
    \E p \in Pollers :
        LET r == runs[p]
        IN  /\ r.orphan # 0 /\ r.started /\ r.dispatch = "ok"
            /\ \E i \in DOMAIN r.calls :
                   r.calls[i].op = "agentTask" /\ r.calls[i].number = r.orphan
            /\ StatusOf(ItemById(board.items, r.item_id)) = r.opt_ready

\* The remote answered this call with a 2xx response whose payload carries a
\* top-level errors list.
AnsweredWithErrors(r, i) == r.calls[i].resp = "errors"

\* C21: a remote call answered with an errors payload is the last call of the
\* run, and the run ends with a configuration error; in particular a run
\* whose status mutation is answered with errors does not end with status
\* zero.
C21_ErrorsPayloadAborts ==
    \A p \in Pollers :
        LET r == runs[p]
        IN  \A i \in DOMAIN r.calls :
                AnsweredWithErrors(r, i) =>
                    /\ i = Len(r.calls)
                    /\ r.pc = "done" /\ r.exit = "error"
                    /\ r.log \cap ErrorLines # {}

\* The positions of the "pull" segments of a path that are immediately
\* followed by an all-digit segment.
PullNumbers(parts) ==
    {i \in DOMAIN parts : parts[i] = S_pull /\ i < Len(parts) /\ IsDigitStr(parts[i + 1])}

\* The run has gone through the block that stores the PR number.
PastStorePR(r) ==
    \/ r.pc \in {"store_pr_text", "update_status"}
    \/ r.pc = "done" /\ r.dispatch # None /\ ~CommentFailed(r)

\* C22: when the path of the session URL has a "pull" segment immediately
\* followed by an all-digit segment, the numeric write carries the value of
\* such a segment; when it has none, or when there is no session URL, no PR
\* field write is issued.
C22_PullNumberExtracted ==
    \A p \in Pollers :
        LET r == runs[p]
            parts == r.session_url.path
        IN  /\ (PastStorePR(r) /\ MayStorePR(r) /\ PullNumbers(parts) # {}) =>
                   \E i \in DOMAIN r.calls : \E k \in PullNumbers(parts) :
                       /\ r.calls[i].op = "setNumber"
                       /\ r.calls[i].number = ToInt(parts[k + 1])
            /\ PullNumbers(parts) = {} => Ops(r) \cap {"setNumber", "setText"} = {}

\* The characters of a text that are alphanumeric or whitespace, in order,
\* each one lowercased.
RECURSIVE KeptLowered(_, _)
KeptLowered(text, i) ==
    IF i > Len(text) THEN <<>>
    ELSE (IF IsAlnum(text[i]) \/ IsSpace(text[i]) THEN LowerOf(text[i]) ELSE <<>>)
         \o KeptLowered(text, i + 1)

SpacesOf(text) == Cardinality({i \in DOMAIN text : IsSpace(text[i])})

\* A label without its decoration: the characters that are not alphanumeric
\* or whitespace removed, and the whitespace left at the ends trimmed.
Undecorated(text) == Stripped(SelectSeq(text, IsKept))

Idempotent(text) == normalize(normalize(text)) = normalize(text)

\* What C23 states besides idempotence, for the configured ready name: the
\* key is the kept characters lowercased, no whitespace is dropped, and the
\* option loop resolves the name and its undecorated form to the same option.
NormalizeKeepsAndResolves ==
    LET t == cfg.status_ready
        r == runs["p1"]
        opts == StatusFieldOf(board.fields).options
    IN  /\ normalize(t) = KeptLowered(t, 1)
        /\ SpacesOf(normalize(t)) = SpacesOf(t)
        /\ (t # <<>> /\ IsSpace(t[Len(t)])) =>
               (normalize(t) # <<>> /\ IsSpace(normalize(t)[Len(normalize(t))]))
        /\ ResolveOptions(opts, t, cfg.status_inflight).opt_ready =
               ResolveOptions(opts, Undecorated(t), cfg.status_inflight).opt_ready
        /\ r.pc # "resolve" =>
               r.opt_ready = ResolveOptions(opts, Undecorated(t), cfg.status_inflight).opt_ready

\* C23, as claimed: normalize keeps the alphanumeric and whitespace
\* characters, lowercased, without trimming; it is idempotent; a decorated
\* label resolves to the same option as its undecorated form.
C23_NormalizeIdempotent ==
    NormalizeKeepsAndResolves /\ Idempotent(cfg.status_ready)

\* C23, amended: as above, with idempotence for the texts that do not
\* contain U+0130, whose lowercase form brings in a character that a second
\* normalize removes.
C23_NormalizeIdempotentButDotAbove ==
    /\ NormalizeKeepsAndResolves
    /\ I_DotAbove \notin Range(cfg.status_ready) => Idempotent(cfg.status_ready)
    /\ cfg.status_ready = <<I_DotAbove>> =>
           (normalize(cfg.status_ready) = <<"i", CombiningDot>>
            /\ normalize(normalize(cfg.status_ready)) = <<"i">>)

C23_Witness ==
    /\ cfg.status_ready = <<"e", " ", "*">>
    /\ normalize(cfg.status_ready) = <<"e", " ">>
    /\ runs["p1"].pc = "fetch"
    /\ runs["p1"].opt_ready # None

\* The run went through the selection of a candidate.
PastSelect(r) == ReachedGate(r) /\ r.pc # "select" /\ BlockedMsg \notin r.log

\* The call just before a status mutation is the agent-task creation or one
\* of the writes that follow it: no read of the board comes in between.
NoRereadBeforeStatus(r) ==
    \A i \in DOMAIN r.calls :
        r.calls[i].op = "setStatus" =>
            (i > 1 /\ r.calls[i - 1].op \in {"agentTask", "comment", "setNumber", "setText"})

CreatedTaskFor(r, number) ==
    \E i \in DOMAIN r.calls :
        r.calls[i].op = "agentTask" /\ r.calls[i].resp = "ok" /\ r.calls[i].number = number

\* C24: two runs that fetched the same items (neither saw the other's status
\* mutation) take the same gate decision and select the same candidate, the
\* eligible issue of least number; each one whose dispatch succeeds creates
\* an agent task for it; and no status mutation follows a re-read of the
\* board.
C24_NoMutualExclusion ==
    \A p, q \in Pollers :
        LET a == runs[p]
            b == runs[q]
        IN  /\ NoRereadBeforeStatus(a)
            /\ (p # q /\ ReachedGate(a) /\ ReachedGate(b) /\ a.items = b.items) =>
                   /\ (BlockedMsg \in a.log) <=> (BlockedMsg \in b.log)
                   /\ (HasSelected(a) /\ PastSelect(b)) =>
                          /\ b.item_id = a.item_id /\ b.number = a.number
                          /\ \A j \in EligibleIn(a) : a.number <= a.items[j].content.number
                   /\ a.dispatch = "ok" => CreatedTaskFor(a, a.number)

C24_Witness ==
    /\ runs["p1"].number # 0
    /\ CreatedTaskFor(runs["p1"], runs["p1"].number)
    /\ CreatedTaskFor(runs["p2"], runs["p1"].number)
    /\ Len(transitions) = 2
    /\ transitions[1].item = transitions[2].item
    /\ runs["p1"].landedBefore = 0 /\ runs["p2"].landedBefore = 0

\* The run resolved both mandatory options.
ResolutionSucceeded(r) ==
    r.pc \in {"fetch", "gate"} \/ ReachedGate(r)

\* C25: when resolution succeeds, the ready option is not in the gate set
\* and differs from the in-flight option; a run over items that hold only
\* the ready status is not blocked; a status transition changes the option
\* of the item.
C25_ReadyOutsideGate ==
    \A p \in Pollers :
        LET r == runs[p]
        IN  ResolutionSucceeded(r) =>
                /\ r.opt_ready \notin Range(r.opt_gate)
                /\ r.opt_ready # r.opt_inflight
                /\ (ReachedGate(r) /\ \A i \in DOMAIN r.items :
                                          StatusOf(r.items[i]) = r.opt_ready) =>
                       BlockedMsg \notin r.log
                /\ \A t \in (r.landedBefore + 1)..Len(transitions) :
                       transitions[t].from # transitions[t].to

=============================================================================
